---- MODULE Spec2Model ----
(***************************************************************************)
(* EchoNote asynchronous transcription pipeline.                           *)
(*                                                                         *)
(* The model covers the Job Record (backend/models.py Transcription), the  *)
(* request handlers that create, reset, delete and poll it                 *)
(* (backend/routers/transcriptions.py, backend/services/                   *)
(* transcription_service.py, backend/main.py), the Celery task             *)
(* transcribe_audio_task with its automatic retries (backend/tasks.py),    *)
(* the two segmenters (backend/audio_chunker.py) and the merger            *)
(* (backend/transcription_merger.py).                                      *)
(*                                                                         *)
(* Conventions                                                             *)
(*  - A text is a sequence of tokens (strings); " " and "\n" are the       *)
(*    whitespace tokens, <<>> is the empty string.                         *)
(*  - A time is an exact rational number of seconds [n |-> num, d |-> den] *)
(*    in lowest terms; Python's float rounding is not modelled.            *)
(*  - Every action is one handler step between two database commits (or    *)
(*    between a commit and the return of a blocking external call).        *)
(***************************************************************************)
EXTENDS Integers, Sequences, FiniteSets, TLC

(***************************************************************************)
(* Bounds of the model                                                     *)
(***************************************************************************)
\* Number of Job Records that are ever created.
MaxRecords == 1
\* Number of queue tasks that are ever enqueued (submit + resubmit).
MaxTasks == 2
\* Recordings last DurationStepMs, 2*DurationStepMs, ... MaxDurationUnits*DurationStepMs.
MaxDurationUnits == 2
DurationStepMs == 60000
\* Functions called on their own: times up to MaxHalfSeconds half seconds,
\* chunk sizes up to MaxChunkSeconds seconds, up to MaxSegments diarization
\* segments, up to MaxMergeChunks chunks to merge.
MaxHalfSeconds == 6
MaxChunkSeconds == 2
MaxSegments == 2
MaxMergeChunks == 4

(***************************************************************************)
(* Program constants                                                       *)
(***************************************************************************)
\* settings.CHUNK_DURATION_SECONDS
CHUNK_DURATION_SECONDS == 60
\* retry_kwargs={'max_retries': 3}
max_retries == 3
\* Optional[int] progress = None of a record the legacy endpoint created
NoProgress == -1
\* Optional[str] task_id = None
NoTask == 0

None == "None"
NoSpeaker == "NoSpeaker"

(***************************************************************************)
(* Rational arithmetic for times in seconds                                *)
(***************************************************************************)
RECURSIVE Gcd(_, _)
Gcd(a, b) == IF b = 0 THEN a ELSE Gcd(b, a % b)

Abs(x) == IF x < 0 THEN -x ELSE x

Rat(num, den) ==
    LET g == Gcd(Abs(num), den)
    IN  IF num = 0 THEN [n |-> 0, d |-> 1] ELSE [n |-> num \div g, d |-> den \div g]

RAdd(x, y) == Rat(x.n * y.d + y.n * x.d, x.d * y.d)
RSub(x, y) == Rat(x.n * y.d - y.n * x.d, x.d * y.d)
RMulInt(x, k) == Rat(x.n * k, x.d)
RDivInt(x, k) == Rat(x.n, x.d * k)
RLe(x, y) == x.n * y.d <= y.n * x.d
RLt(x, y) == x.n * y.d < y.n * x.d
RMin(x, y) == IF RLe(x, y) THEN x ELSE y
RFromInt(k) == [n |-> k, d |-> 1]
\* Python's x // k for a float x >= 0 and an int k > 0, as an integer.
RFloorDivInt(x, k) == x.n \div (x.d * k)
\* milliseconds / 1000.0
Seconds(ms) == Rat(ms, 1000)

(***************************************************************************)
(* Texts                                                                   *)
(***************************************************************************)
Whitespace == {" ", "\n"}

RECURSIVE lstrip(_)
lstrip(s) == IF s # <<>> /\ Head(s) \in Whitespace THEN lstrip(Tail(s)) ELSE s

RECURSIVE rstrip(_)
rstrip(s) ==
    IF s # <<>> /\ s[Len(s)] \in Whitespace THEN rstrip(SubSeq(s, 1, Len(s) - 1)) ELSE s

\* str.strip()
strip(s) == rstrip(lstrip(s))

\* sep.join(lines)
RECURSIVE join(_, _)
join(sep, lines) ==
    IF lines = <<>> THEN <<>>
    ELSE IF Len(lines) = 1 THEN lines[1]
    ELSE lines[1] \o sep \o join(sep, Tail(lines))

(***************************************************************************)
(* backend/tasks.py: extract_transcription_text                            *)
(*                                                                         *)
(* A response is [kind, text]: "str" a plain string that is not JSON,      *)
(* "json" a JSON string holding an object with a "text" member, "obj" an   *)
(* object with a .text attribute, "dict" a dict with a 'text' key, "model" *)
(* an object whose model_dump() has a 'text' key.  In each, text is the    *)
(* transcript the engine produced.  Any other response goes to the         *)
(* fallback, str(response).                                                *)
(***************************************************************************)
extract_transcription_text(response) ==
    CASE response.kind = "str" -> response.text
      [] response.kind = "json" -> response.text
      [] response.kind = "obj" -> response.text
      [] response.kind = "dict" -> response.text
      [] response.kind = "model" -> response.text
      [] OTHER -> <<"<repr>">>

(***************************************************************************)
(* backend/transcription_merger.py                                         *)
(***************************************************************************)
NoTime == [n |-> -1, d |-> 1]

\* Variant of group_step that opens a new group at every chunk.
group_step_apart(st, c) ==
    LET text == strip(c.text)
    IN  IF text = <<>> THEN st
        ELSE [grouped |->
                 IF st.current_texts # <<>>
                 THEN Append(st.grouped,
                             [speaker |-> st.current_speaker,
                              text |-> join(<<" ">>, st.current_texts),
                              start |-> st.current_start,
                              end |-> st.current_end])
                 ELSE st.grouped,
              current_speaker |-> c.speaker,
              current_texts |-> <<text>>,
              current_start |-> c.start,
              current_end |-> c.end]

\* One pass of the loop of group_by_speaker over chunk c; st holds the loop's
\* locals (grouped, current_speaker, current_texts, current_start, current_end).
group_step(st, c) ==
    LET text == strip(c.text)
    IN  IF text = <<>> THEN st
        ELSE IF c.speaker = st.current_speaker
        THEN [st EXCEPT !.current_texts = Append(@, text), !.current_end = c.end]
        ELSE [grouped |->
                 IF st.current_texts # <<>>
                 THEN Append(st.grouped,
                             [speaker |-> st.current_speaker,
                              text |-> join(<<" ">>, st.current_texts),
                              start |-> st.current_start,
                              end |-> st.current_end])
                 ELSE st.grouped,
              current_speaker |-> c.speaker,
              current_texts |-> <<text>>,
              current_start |-> c.start,
              current_end |-> c.end]

RECURSIVE group_loop(_, _)
group_loop(st, chunks) ==
    IF chunks = <<>> THEN st ELSE group_loop(group_step(st, Head(chunks)), Tail(chunks))

group_by_speaker(chunks) ==
    IF chunks = <<>> THEN <<>>
    ELSE LET st == group_loop([grouped |-> <<>>, current_speaker |-> NoSpeaker,
                               current_texts |-> <<>>, current_start |-> NoTime,
                               current_end |-> NoTime], chunks)
         IN  IF st.current_texts # <<>>
             THEN Append(st.grouped,
                         [speaker |-> st.current_speaker,
                          text |-> join(<<" ">>, st.current_texts),
                          start |-> st.current_start,
                          end |-> st.current_end])
             ELSE st.grouped

\* Variant of merged_lines that keeps the line of a chunk whose text is blank.
RECURSIVE merged_lines_keep_blank(_, _)
merged_lines_keep_blank(chunks, include_speakers) ==
    IF chunks = <<>> THEN <<>>
    ELSE LET chunk == Head(chunks)
             text == strip(chunk.text)
             rest == merged_lines_keep_blank(Tail(chunks), include_speakers)
         IN  IF include_speakers /\ chunk.speaker # NoSpeaker
             THEN <<join(<<" ">>, << <<chunk.speaker, ":">>, text >>)>> \o rest
             ELSE IF include_speakers
             THEN <<join(<<" ">>, <<text>>)>> \o rest
             ELSE <<text>> \o rest

\* merged_lines of merge_transcriptions; the orchestrator never asks for
\* timestamps (include_timestamps is False at both call sites).
RECURSIVE merged_lines(_, _)
merged_lines(chunks, include_speakers) ==
    IF chunks = <<>> THEN <<>>
    ELSE LET chunk == Head(chunks)
             text == strip(chunk.text)
             rest == merged_lines(Tail(chunks), include_speakers)
         IN  IF text = <<>> THEN rest
             ELSE IF include_speakers /\ chunk.speaker # NoSpeaker
             THEN <<join(<<" ">>, << <<chunk.speaker, ":">>, text >>)>> \o rest
             ELSE IF include_speakers
             THEN <<join(<<" ">>, <<text>>)>> \o rest
             ELSE <<text>> \o rest

RECURSIVE Reverse(_)
Reverse(seq) == IF seq = <<>> THEN <<>> ELSE Reverse(Tail(seq)) \o <<Head(seq)>>

\* Variant of merge_transcriptions that emits the lines last chunk first.
merge_transcriptions_reversed(chunks, include_speakers) ==
    IF chunks = <<>> THEN <<>>
    ELSE IF include_speakers
    THEN join(<<"\n">>, Reverse(merged_lines(chunks, include_speakers)))
    ELSE join(<<" ">>, Reverse(merged_lines(chunks, include_speakers)))

merge_transcriptions(chunks, include_speakers) ==
    IF chunks = <<>> THEN <<>>
    ELSE IF include_speakers
    THEN join(<<"\n">>, merged_lines(chunks, include_speakers))
    ELSE join(<<" ">>, merged_lines(chunks, include_speakers))

(***************************************************************************)
(* backend/audio_chunker.py                                                *)
(***************************************************************************)
Min(a, b) == IF a <= b THEN a ELSE b

\* Variant of chunk_audio whose chunks all end chunk_duration after their start.
chunk_audio_unclamped(total_duration_ms, chunk_duration_seconds) ==
    IF RLe(Seconds(total_duration_ms), RFromInt(chunk_duration_seconds))
    THEN << [start |-> RFromInt(0), end |-> Seconds(total_duration_ms),
             speaker |-> NoSpeaker] >>
    ELSE LET chunk_duration_ms == chunk_duration_seconds * 1000
             num_chunks == (total_duration_ms + chunk_duration_ms - 1) \div chunk_duration_ms
         IN  [i \in 1..num_chunks |->
                 LET start_ms == (i - 1) * chunk_duration_ms
                 IN  [start |-> Seconds(start_ms), end |-> Seconds(start_ms + chunk_duration_ms),
                      speaker |-> NoSpeaker]]

\* Variant of chunk_audio that counts total_ms // chunk_ms + 1 chunks.
chunk_audio_one_more(total_duration_ms, chunk_duration_seconds) ==
    IF RLe(Seconds(total_duration_ms), RFromInt(chunk_duration_seconds))
    THEN << [start |-> RFromInt(0), end |-> Seconds(total_duration_ms),
             speaker |-> NoSpeaker] >>
    ELSE LET chunk_duration_ms == chunk_duration_seconds * 1000
             num_chunks == total_duration_ms \div chunk_duration_ms + 1
         IN  [i \in 1..num_chunks |->
                 LET start_ms == (i - 1) * chunk_duration_ms
                     end_ms == Min(start_ms + chunk_duration_ms, total_duration_ms)
                 IN  [start |-> Seconds(start_ms), end |-> Seconds(end_ms),
                      speaker |-> NoSpeaker]]

\* chunk_audio on a recording of total_duration_ms milliseconds (len(audio)).
chunk_audio(total_duration_ms, chunk_duration_seconds) ==
    IF RLe(Seconds(total_duration_ms), RFromInt(chunk_duration_seconds))
    THEN << [start |-> RFromInt(0), end |-> Seconds(total_duration_ms),
             speaker |-> NoSpeaker] >>
    ELSE LET chunk_duration_ms == chunk_duration_seconds * 1000
             num_chunks == (total_duration_ms + chunk_duration_ms - 1) \div chunk_duration_ms
         IN  [i \in 1..num_chunks |->
                 LET start_ms == (i - 1) * chunk_duration_ms
                     end_ms == Min(start_ms + chunk_duration_ms, total_duration_ms)
                 IN  [start |-> Seconds(start_ms), end |-> Seconds(end_ms),
                      speaker |-> NoSpeaker]]

\* int((segment_duration + max_chunk_duration - 1) // max_chunk_duration)
num_sub_chunks(segment_duration, max_chunk_duration) ==
    RFloorDivInt(RAdd(segment_duration, RFromInt(max_chunk_duration - 1)), max_chunk_duration)

\* Variant of segment_chunks that cuts sub-chunks of max_chunk_duration each.
segment_chunks_fixed_size(segment, max_chunk_duration) ==
    LET segment_duration == RSub(segment.end, segment.start)
    IN  IF RLe(segment_duration, RFromInt(max_chunk_duration))
        THEN << [start |-> segment.start, end |-> segment.end, speaker |-> segment.speaker] >>
        ELSE LET n == num_sub_chunks(segment_duration, max_chunk_duration)
                 sub_chunk_duration == RFromInt(max_chunk_duration)
             IN  [k \in 1..n |->
                     [start |-> RAdd(segment.start, RMulInt(sub_chunk_duration, k - 1)),
                      end |-> RMin(RAdd(segment.start, RMulInt(sub_chunk_duration, k)),
                                   segment.end),
                      speaker |-> segment.speaker]]

\* The chunks chunk_audio_by_diarization appends for one diarization segment.
segment_chunks(segment, max_chunk_duration) ==
    LET segment_duration == RSub(segment.end, segment.start)
    IN  IF RLe(segment_duration, RFromInt(max_chunk_duration))
        THEN << [start |-> segment.start, end |-> segment.end, speaker |-> segment.speaker] >>
        ELSE LET n == num_sub_chunks(segment_duration, max_chunk_duration)
                 sub_chunk_duration == RDivInt(segment_duration, n)
             IN  [k \in 1..n |->
                     [start |-> RAdd(segment.start, RMulInt(sub_chunk_duration, k - 1)),
                      end |-> RMin(RAdd(segment.start, RMulInt(sub_chunk_duration, k)),
                                   segment.end),
                      speaker |-> segment.speaker]]

RECURSIVE chunk_audio_by_diarization(_, _)
chunk_audio_by_diarization(diarization_results, max_chunk_duration) ==
    IF diarization_results = <<>> THEN <<>>
    ELSE segment_chunks(Head(diarization_results), max_chunk_duration)
         \o chunk_audio_by_diarization(Tail(diarization_results), max_chunk_duration)

\* sorted(diarization_results, key=lambda x: x['start']): a stable sort.
RECURSIVE insert_by_start(_, _)
insert_by_start(sorted, x) ==
    IF sorted = <<>> THEN <<x>>
    ELSE IF RLt(x.start, Head(sorted).start) THEN <<x>> \o sorted
    ELSE <<Head(sorted)>> \o insert_by_start(Tail(sorted), x)

RECURSIVE sorted_by_start(_)
sorted_by_start(segs) ==
    IF segs = <<>> THEN <<>>
    ELSE insert_by_start(sorted_by_start(SubSeq(segs, 1, Len(segs) - 1)), segs[Len(segs)])

(***************************************************************************)
(* State                                                                   *)
(***************************************************************************)
VARIABLES
    db,        \* the transcriptions table: record id -> Job Record
    nextId,    \* number of records created so far (ids are not reused)
    tasks,     \* the queue tasks ever sent, by task id: args, retries, position, locals
    peak,      \* history: per record, highest progress stored with status
               \* "processing" since the record's only job was enqueued
    call       \* a call of one function of the segmenters or the merger on its
               \* own: the function, its arguments and, once returned, its result

vars == <<db, nextId, tasks, peak, call>>

Durations == {k * DurationStepMs : k \in 1..MaxDurationUnits}

MODELS == {"whisper"}
ModelNames == MODELS \cup {"no-such-model"}

Words == <<"w1", "w2", "w3", "w4", "w5", "w6", "w7", "w8">>

\* What the inference engine may answer for the i-th call of a job: an
\* exception, whitespace only, or a transcript.
Raised == [ok |-> FALSE, response |-> [kind |-> "str", text |-> <<>>]]
Answered(text) == [ok |-> TRUE, response |-> [kind |-> "str", text |-> text]]
InferenceOutcomes(i) == {Raised, Answered(<<" ">>), Answered(<<Words[i]>>)}

\* What the diarization engine may return for a recording of ms milliseconds:
\* nothing, or two speakers out of chronological order.
Segment(speaker, start_ms, end_ms) ==
    [speaker |-> speaker, start |-> Seconds(start_ms), end |-> Seconds(end_ms)]
DiarizationOutputs(ms) ==
    { <<>>,
      << Segment("B", ms \div 2, ms), Segment("A", 0, ms \div 2) >> }

LegacyText == <<"legacy transcript">>

\* f"[TRANSCRIPTION FAILED]\n\nError: {str(e)}\n\nThe audio recording has been saved ..."
\* The interpolated message is the one token "{str(e)}".
FailureText(msg) == <<"[TRANSCRIPTION FAILED]", "\n", "\n", "Error:", " ", "{str(e)}">>

NoSpeakersSuffix == <<"\n", "\n", "[No speakers detected]">>

TaskIds == 1..Len(tasks)
Running == {"loading", "loaded", "diarizing", "fallback", "chunk", "direct"}

Max(a, b) == IF a >= b THEN a ELSE b

\* History variable, kept when old.on: for every record of table d, the
\* highest progress stored under status "processing" since the record was last
\* pending, given the peaks so far.  It is kept while a single task has been
\* enqueued (queue q) and is 0 from then on.
Observed(d, q, old) ==
    IF ~old.on THEN old
    ELSE [old EXCEPT !.of =
            [r \in DOMAIN d |->
                LET before == IF r \in DOMAIN old.of THEN old.of[r] ELSE 0
                IN  CASE Len(q) > 1 -> 0
                      [] d[r].status = "processing" -> Max(before, d[r].progress)
                      [] d[r].status = "pending" -> 0
                      [] OTHER -> before]]

Init ==
    /\ db = <<>>
    /\ nextId = 0
    /\ tasks = <<>>
    /\ peak = [on |-> FALSE, of |-> <<>>]
    /\ call = [fn |-> "none"]

\* The same program with the history variable switched on.
InitPeak ==
    /\ db = <<>>
    /\ nextId = 0
    /\ tasks = <<>>
    /\ peak = [on |-> TRUE, of |-> <<>>]
    /\ call = [fn |-> "none"]

NewTask(id, model, enable_diarization) ==
    [transcription_id |-> id, model |-> model, enable_diarization |-> enable_diarization,
     retries |-> 0, pc |-> "queued", strategy |-> "none", duration_ms |-> 0,
     chunks |-> <<>>, idx |-> 0, transcribed_chunks |-> <<>>,
     outcomes |-> <<>>, exc |-> None]

(***************************************************************************)
(* Request handlers                                                        *)
(***************************************************************************)
\* TranscriptionService.dispatch_transcription_task on table d: the table and
\* the task list after it.  broker_up = FALSE is send_task raising.
\* Variant of dispatch_db that does not store the id of the task it sent.
dispatch_db_forgetful(d, id, broker_up) ==
    IF broker_up
    THEN d
    ELSE [d EXCEPT ![id].status = "failed",
                   ![id].error_message = "Failed to start background task"]

dispatch_db(d, id, broker_up) ==
    IF broker_up
    THEN [d EXCEPT ![id].task_id = Len(tasks) + 1]
    ELSE [d EXCEPT ![id].status = "failed",
                   ![id].error_message = "Failed to start background task"]

dispatch_tasks(id, model, enable_diarization, broker_up) ==
    IF broker_up THEN Append(tasks, NewTask(id, model, enable_diarization)) ELSE tasks

\* main.py POST /api/transcribe: the synchronous endpoint stores the audio in
\* the record itself, with the model's default status.
legacy_transcribe(ms) ==
    /\ nextId < MaxRecords
    /\ nextId' = nextId + 1
    /\ db' = db @@ ((nextId + 1) :>
                [status |-> "completed", progress |-> NoProgress, text |-> LegacyText,
                 error_message |-> None, task_id |-> NoTask, audio_data |-> "bytes",
                 minio_object_path |-> None, audio_ms |-> ms])
    /\ UNCHANGED tasks
    /\ peak' = Observed(db', tasks', peak)
    /\ UNCHANGED call

\* routers/transcriptions.py POST /transcribe: create_transcription_record then
\* dispatch_transcription_task.  process_audio_upload has rejected an unknown model.
submit(ms, enable_diarization, broker_up) ==
    /\ nextId < MaxRecords
    /\ broker_up => Len(tasks) < MaxTasks
    /\ nextId' = nextId + 1
    /\ LET id == nextId + 1
           created == db @@ (id :>
                [status |-> "pending", progress |-> 0, text |-> <<>>,
                 error_message |-> None, task_id |-> NoTask, audio_data |-> None,
                 minio_object_path |-> "audio", audio_ms |-> ms])
       IN  /\ db' = dispatch_db(created, id, broker_up)
           /\ tasks' = dispatch_tasks(id, "whisper", enable_diarization, broker_up)
    /\ peak' = Observed(db', tasks', peak)
    /\ UNCHANGED call

\* routers/transcriptions.py POST /transcriptions/{id}/re-transcribe
re_transcribe(id, model, enable_diarization, broker_up) ==
    /\ id \in DOMAIN db
    /\ broker_up => Len(tasks) < MaxTasks
    /\ LET reset == [db EXCEPT ![id].status = "pending", ![id].progress = 0,
                               ![id].text = <<>>, ![id].error_message = None,
                               ![id].task_id = NoTask]
       IN  /\ db' = dispatch_db(reset, id, broker_up)
           /\ tasks' = dispatch_tasks(id, model, enable_diarization, broker_up)
    /\ UNCHANGED nextId
    /\ peak' = Observed(db', tasks', peak)
    /\ UNCHANGED call

\* TranscriptionService.delete_transcription
delete_transcription(id) ==
    /\ id \in DOMAIN db
    /\ db' = [r \in DOMAIN db \ {id} |-> db[r]]
    /\ UNCHANGED <<nextId, tasks>>
    /\ peak' = Observed(db', tasks', peak)
    /\ UNCHANGED call

\* AsyncResult(task_id).state as the result backend reports it.
celery_state(t) ==
    CASE tasks[t].pc = "queued" /\ tasks[t].retries = 0 -> "PENDING"
      [] tasks[t].pc = "queued" /\ tasks[t].retries > 0 -> "RETRY"
      [] tasks[t].pc \in Running -> "PROCESSING"
      [] tasks[t].pc = "success" -> "SUCCESS"
      [] OTHER -> "FAILURE"

\* routers/transcriptions.py GET /transcriptions/{id}/status
get_transcription_status(id) ==
    /\ id \in DOMAIN db
    /\ IF /\ db[id].task_id # NoTask
          /\ db[id].status \in {"pending", "processing"}
          /\ celery_state(db[id].task_id) = "FAILURE"
       THEN db' = [db EXCEPT ![id].status = "failed",
                             ![id].error_message = tasks[db[id].task_id].exc]
       ELSE db' = db
    /\ UNCHANGED <<nextId, tasks>>
    /\ peak' = Observed(db', tasks', peak)
    /\ UNCHANGED call

(***************************************************************************)
(* backend/tasks.py: transcribe_audio_task                                 *)
(***************************************************************************)
\* Variant of except_block that marks the record failed without a message.
except_block_silent(d, id, msg) ==
    IF id \in DOMAIN d
    THEN [d EXCEPT ![id].status = "failed",
                   ![id].progress = 0,
                   ![id].text = IF strip(@) = <<>> THEN FailureText(msg) ELSE @]
    ELSE d

\* The except block of transcribe_audio_task on table d: the record, if it is
\* still there, is marked failed; the text field takes the failure notice
\* unless it already holds something.
except_block(d, id, msg) ==
    IF id \in DOMAIN d
    THEN [d EXCEPT ![id].status = "failed",
                   ![id].error_message = msg,
                   ![id].progress = 0,
                   ![id].text = IF strip(@) = <<>> THEN FailureText(msg) ELSE @]
    ELSE d

\* The task function has returned or raised: its locals are gone.
Returned(tk) ==
    [tk EXCEPT !.strategy = "none", !.duration_ms = 0, !.chunks = <<>>, !.idx = 0,
               !.transcribed_chunks = <<>>, !.outcomes = <<>>]

\* autoretry_for=(Exception,), retry_kwargs={'max_retries': 3}: the re-raised
\* exception sends the task back to the queue until the retries are used up.
autoretry(tk, msg) ==
    IF tk.retries < max_retries
    THEN [Returned(tk) EXCEPT !.pc = "queued", !.retries = @ + 1]
    ELSE [Returned(tk) EXCEPT !.pc = "failure", !.exc = msg]

\* The body raised msg while task t held locals tk.
Raise(t, tk, msg) ==
    /\ db' = except_block(db, tk.transcription_id, msg)
    /\ tasks' = [tasks EXCEPT ![t] = autoretry(tk, msg)]

\* db_transcription.progress = p; session.commit() and then position pc with
\* locals tk; the commit raises when the row has been deleted.
CommitProgress(t, tk, p, pc) ==
    IF tk.transcription_id \in DOMAIN db
    THEN /\ db' = [db EXCEPT ![tk.transcription_id].progress = p]
         /\ tasks' = [tasks EXCEPT ![t] = [tk EXCEPT !.pc = pc]]
    ELSE Raise(t, tk, "StaleDataError")

\* Lines 208-213: the final write.
CommitCompleted(t, tk, text) ==
    IF tk.transcription_id \in DOMAIN db
    THEN /\ db' = [db EXCEPT ![tk.transcription_id].text = text,
                             ![tk.transcription_id].status = "completed",
                             ![tk.transcription_id].progress = 100,
                             ![tk.transcription_id].error_message = None]
         /\ tasks' = [tasks EXCEPT ![t] = [Returned(tk) EXCEPT !.pc = "success"]]
    ELSE Raise(t, tk, "StaleDataError")

\* Variant of select_strategy that chunks a recording of exactly chunk_duration.
select_strategy_inclusive(enable_diarization, duration_ms, chunk_duration) ==
    IF enable_diarization THEN "diarization"
    ELSE IF RLe(RFromInt(chunk_duration), Seconds(duration_ms)) THEN "time"
    ELSE "direct"

\* Lines 272, 370, 432: which case of process_transcription_async runs.
select_strategy(enable_diarization, duration_ms, chunk_duration) ==
    IF enable_diarization THEN "diarization"
    ELSE IF RLt(RFromInt(chunk_duration), Seconds(duration_ms)) THEN "time"
    ELSE "direct"

\* int(base + idx * (span / n)) for the idx-th chunk (from 0) of n
chunk_progress(base, span, idx, n) == base + ((idx * span) \div n)

\* A worker takes the task from the queue: lines 139-155.
TaskStart(t) ==
    /\ tasks[t].pc = "queued"
    /\ LET tk == tasks[t]
           id == tk.transcription_id
       IN  IF id \notin DOMAIN db
           THEN Raise(t, tk, "Transcription not found")
           ELSE /\ db' = [db EXCEPT ![id].status = "processing", ![id].progress = 5]
                /\ tasks' = [tasks EXCEPT ![t] = [tk EXCEPT !.pc = "loading"]]
    /\ UNCHANGED nextId
    /\ peak' = Observed(db', tasks', peak)
    /\ UNCHANGED call

\* Lines 157-183: read audio_data, decode it, store progress 10.
TaskLoad(t) ==
    /\ tasks[t].pc = "loading"
    /\ LET tk == tasks[t]
           id == tk.transcription_id
       IN  IF id \notin DOMAIN db
           THEN Raise(t, tk, "ObjectDeletedError")
           ELSE IF db[id].audio_data = None
           THEN Raise(t, tk, "object of type 'NoneType' has no len()")
           ELSE CommitProgress(t, [tk EXCEPT !.duration_ms = db[id].audio_ms], 10, "loaded")
    /\ UNCHANGED nextId
    /\ peak' = Observed(db', tasks', peak)
    /\ UNCHANGED call

\* Lines 185-187 and the entry of process_transcription_async up to its first
\* blocking call: validate the model, pick the case, chunk (time case).
TaskSelect(t) ==
    /\ tasks[t].pc = "loaded"
    /\ LET tk == tasks[t]
           strategy == select_strategy(tk.enable_diarization, tk.duration_ms,
                                       CHUNK_DURATION_SECONDS)
           chunks == chunk_audio(tk.duration_ms, CHUNK_DURATION_SECONDS)
       IN  IF tk.model \notin MODELS
           THEN Raise(t, tk, "Invalid model")
           ELSE CASE strategy = "diarization" ->
                       CommitProgress(t, [tk EXCEPT !.strategy = strategy], 15, "diarizing")
                  [] strategy = "time" ->
                       CommitProgress(t, [tk EXCEPT !.strategy = strategy, !.chunks = chunks,
                                                    !.idx = 1],
                                      chunk_progress(20, 70, 0, Len(chunks)), "chunk")
                  [] OTHER ->
                       CommitProgress(t, [tk EXCEPT !.strategy = strategy], 50, "direct")
    /\ UNCHANGED nextId
    /\ peak' = Observed(db', tasks', peak)
    /\ UNCHANGED call

\* diarize_audio returns (lines 281-318): sort, store progress 30, then either
\* the whole-file fallback or the chunk loop's first pass.
DiarizeReturn(t, ok, results) ==
    /\ tasks[t].pc = "diarizing"
    /\ LET tk == tasks[t]
           diarization_results == sorted_by_start(results)
           chunks == chunk_audio_by_diarization(diarization_results, CHUNK_DURATION_SECONDS)
       IN  IF ~ok
           THEN Raise(t, tk, "DiarizationError")
           ELSE IF diarization_results = <<>>
           THEN CommitProgress(t, tk, 30, "fallback")
           ELSE CommitProgress(t, [tk EXCEPT !.chunks = chunks, !.idx = 1],
                               chunk_progress(30, 60, 0, Len(chunks)), "chunk")
    /\ UNCHANGED nextId
    /\ peak' = Observed(db', tasks', peak)
    /\ UNCHANGED call

\* Variant of append_transcribed that keeps a chunk whatever its text.
append_always(transcribed_chunks, chunk, text) ==
    Append(transcribed_chunks,
           [text |-> text, start |-> chunk.start, end |-> chunk.end, speaker |-> chunk.speaker])

\* Lines 343-349, 407-412: if text.strip(): transcribed_chunks.append({...})
append_transcribed(transcribed_chunks, chunk, text) ==
    IF strip(text) # <<>>
    THEN Append(transcribed_chunks,
                [text |-> text, start |-> chunk.start, end |-> chunk.end,
                 speaker |-> chunk.speaker])
    ELSE transcribed_chunks

\* Variant of chunk_pass that moves two chunks ahead, as if the call for the
\* chunk after next had been started along with the next one.
chunk_pass_two_ahead(t, o) ==
    LET tk == tasks[t]
        chunk == tk.chunks[tk.idx]
        text == extract_transcription_text(o.response)
        transcribed_chunks ==
            IF o.ok THEN append_transcribed(tk.transcribed_chunks, chunk, text)
            ELSE tk.transcribed_chunks
        after == [tk EXCEPT !.transcribed_chunks = transcribed_chunks,
                            !.outcomes = Append(@, o)]
        n == Len(tk.chunks)
    IN  IF tk.idx < n
        THEN CommitProgress(t, [after EXCEPT !.idx = tk.idx + 2],
                            chunk_progress(20, 70, tk.idx, n), "chunk")
        ELSE CommitCompleted(t, after, merge_transcriptions(transcribed_chunks, FALSE))

\* One pass of a chunk loop from the return of its inference call to the next
\* call (lines 320-357, 385-421), or past the loop to the merge and the final
\* write (lines 359-367, 423-430, 208-213).
chunk_pass(t, o) ==
    LET tk == tasks[t]
        chunk == tk.chunks[tk.idx]
        text == extract_transcription_text(o.response)
        transcribed_chunks ==
            IF o.ok THEN append_transcribed(tk.transcribed_chunks, chunk, text)
            ELSE tk.transcribed_chunks
        after == [tk EXCEPT !.transcribed_chunks = transcribed_chunks,
                            !.outcomes = Append(@, o)]
        n == Len(tk.chunks)
    IN  IF tk.idx < n
        THEN CommitProgress(t, [after EXCEPT !.idx = tk.idx + 1],
                            IF tk.strategy = "diarization"
                            THEN chunk_progress(30, 60, tk.idx, n)
                            ELSE chunk_progress(20, 70, tk.idx, n),
                            "chunk")
        ELSE IF transcribed_chunks = <<>>
        THEN Raise(t, after,
                   IF tk.strategy = "diarization"
                   THEN "All diarization chunks failed to transcribe"
                   ELSE "All chunks failed to transcribe")
        ELSE CommitCompleted(t, after,
                 IF tk.strategy = "diarization"
                 THEN merge_transcriptions(group_by_speaker(transcribed_chunks), TRUE)
                 ELSE merge_transcriptions(transcribed_chunks, FALSE))

ChunkReturn(t, o) ==
    /\ tasks[t].pc = "chunk"
    /\ chunk_pass(t, o)
    /\ UNCHANGED nextId
    /\ peak' = Observed(db', tasks', peak)
    /\ UNCHANGED call

\* Variant of WholeFileReturn that stores the fallback's text without the
\* no-speakers note.
WholeFileReturn_unannotated(t, o) ==
    /\ tasks[t].pc \in {"direct", "fallback"}
    /\ LET tk == [tasks[t] EXCEPT !.outcomes = Append(@, o)]
           text == extract_transcription_text(o.response)
       IN  IF ~o.ok
           THEN Raise(t, tk, "APIConnectionError")
           ELSE CommitCompleted(t, tk, text)
    /\ UNCHANGED nextId
    /\ peak' = Observed(db', tasks', peak)
    /\ UNCHANGED call

\* The whole-file call returns: the short-audio case (lines 443-452) or the
\* no-speakers fallback (lines 299-304), then the final write.
WholeFileReturn(t, o) ==
    /\ tasks[t].pc \in {"direct", "fallback"}
    /\ LET tk == [tasks[t] EXCEPT !.outcomes = Append(@, o)]
           text == extract_transcription_text(o.response)
       IN  IF ~o.ok
           THEN Raise(t, tk, "APIConnectionError")
           ELSE CommitCompleted(t, tk,
                    IF tasks[t].pc = "fallback" THEN text \o NoSpeakersSuffix ELSE text)
    /\ UNCHANGED nextId
    /\ peak' = Observed(db', tasks', peak)
    /\ UNCHANGED call

\* soft_time_limit=3300: SoftTimeLimitExceeded is raised inside the blocking
\* call the task is waiting in.  In a chunk loop the per-chunk except clause
\* catches it like any other exception.
SoftTimeLimit(t) ==
    /\ tasks[t].pc \in {"diarizing", "direct", "fallback", "chunk"}
    /\ IF tasks[t].pc = "chunk"
       THEN chunk_pass(t, Raised)
       ELSE Raise(t, tasks[t], "SoftTimeLimitExceeded()")
    /\ UNCHANGED nextId
    /\ peak' = Observed(db', tasks', peak)
    /\ UNCHANGED call

\* task_acks_late with task_reject_on_worker_lost (celery_app.py lines 58-59):
\* the worker process running task t dies; the message, not yet acknowledged,
\* goes back to the queue as it was sent, with the retry count it carries.
\* Nothing of the body runs, its except block included.
WorkerLost(t) ==
    /\ tasks[t].pc \in Running
    /\ tasks' = [tasks EXCEPT ![t] = [Returned(tasks[t]) EXCEPT !.pc = "queued"]]
    /\ UNCHANGED <<db, nextId>>
    /\ peak' = Observed(db', tasks', peak)
    /\ UNCHANGED call

Next ==
    \/ \E ms \in Durations : legacy_transcribe(ms)
    \/ \E ms \in Durations, enable_diarization \in BOOLEAN, broker_up \in BOOLEAN :
          submit(ms, enable_diarization, broker_up)
    \/ \E id \in DOMAIN db, model \in ModelNames, enable_diarization \in BOOLEAN,
          broker_up \in BOOLEAN :
          re_transcribe(id, model, enable_diarization, broker_up)
    \/ \E id \in DOMAIN db : delete_transcription(id)
    \/ \E id \in DOMAIN db : get_transcription_status(id)
    \/ \E t \in TaskIds : TaskStart(t)
    \/ \E t \in TaskIds : TaskLoad(t)
    \/ \E t \in TaskIds : TaskSelect(t)
    \/ \E t \in TaskIds : \E results \in DiarizationOutputs(tasks[t].duration_ms) :
          DiarizeReturn(t, TRUE, results)
    \/ \E t \in TaskIds : DiarizeReturn(t, FALSE, <<>>)
    \/ \E t \in TaskIds : \E o \in InferenceOutcomes(Max(tasks[t].idx, 1)) : ChunkReturn(t, o)
    \/ \E t \in TaskIds : \E o \in InferenceOutcomes(1) : WholeFileReturn(t, o)
    \/ \E t \in TaskIds : SoftTimeLimit(t)
    \/ \E t \in TaskIds : WorkerLost(t)

Spec == Init /\ [][Next]_vars

\* The program with the history variable peak recorded.
SpecPeak == InitPeak /\ [][Next]_vars

(***************************************************************************)
(* The segmenters and the merger called on their own                       *)
(***************************************************************************)
\* Times of the arguments: 0, 0.5, 1, ... MaxHalfSeconds/2 seconds.
HalfSeconds == {k * 500 : k \in 0..MaxHalfSeconds}

\* len(audio) of a recording, in whole milliseconds: the half seconds and the
\* millisecond before and after each.
AudioDurations ==
    HalfSeconds \cup {ms + 1 : ms \in HalfSeconds} \cup {ms - 1 : ms \in HalfSeconds \ {0}}

\* chunk_duration_seconds / max_chunk_duration: an int of seconds.
ChunkSeconds == 1..MaxChunkSeconds

SeqsUpTo(S, n) == UNION {[1..k -> S] : k \in 0..n}

\* Diarization segments as pyannote gives them: start < end, any order, any
\* overlap.
Segments ==
    {Segment(speaker, span[1], span[2]) :
        speaker \in {"A", "B"},
        span \in {sp \in HalfSeconds \X HalfSeconds : sp[1] < sp[2]}}

\* Transcribed chunks handed to the merger; the i-th of a list carries a
\* blank text, a word or a word with whitespace around it, and lies at second
\* i-1, one second long or reaching over the chunks after it.
MergeChunksAt(i) ==
    {[text |-> text, speaker |-> speaker, start |-> Seconds((i - 1) * 1000), end |-> end] :
        text \in {<<" ">>, <<Words[i]>>, <<" ", Words[i], "\n">>},
        speaker \in {"A", "B"},
        end \in {Seconds(i * 1000), Seconds((2 * MaxMergeChunks - i) * 1000)}}

RECURSIVE MergeChunkListsOf(_)
MergeChunkListsOf(k) ==
    IF k = 0 THEN {<<>>}
    ELSE {Append(chunks, c) : chunks \in MergeChunkListsOf(k - 1), c \in MergeChunksAt(k)}

(***************************************************************************)
(* routers/transcriptions.py: GET /transcriptions/status/bulk              *)
(***************************************************************************)
\* The cap on the ids of one bulk poll.
MAX_BULK_IDS == 50

\* How far past the cap the id lists of the calls go, and how many rows the
\* table of a call holds.
MaxBulkIdsOver == 2
MaxBulkRows == 2

Users == {"alice", "bob"}

\* The pieces of ids.split(','): numbers (with or without blanks around them)
\* and pieces that strip() empties; any other piece ("x") is one int() refuses.
NumberTokens == <<"1", " 2", "3 ">>
BlankTokens == {"", " "}

\* int(id_str.strip()) where it succeeds.
int_strip == ("1" :> 1) @@ (" 2" :> 2) @@ ("3 " :> 3)

HTTPException(status_code, detail, rows) ==
    [status_code |-> status_code, detail |-> detail, statuses |-> {}, read |-> {},
     rows |-> rows]

\* Variant of the cap that lets one more id through.
too_many_ids_above_cap(id_list) == Len(id_list) > MAX_BULK_IDS + 1

too_many_ids(id_list) == Len(id_list) > MAX_BULK_IDS

\* The response, the rows the query loaded (read) and the table after the
\* call.  The query has no ORDER BY: statuses is a set.
get_bulk_transcription_status(ids, current_user, rows) ==
    LET pieces == SelectSeq(ids, LAMBDA id_str : id_str \notin BlankTokens)
    IN  IF \E i \in DOMAIN pieces : pieces[i] \notin DOMAIN int_strip
        THEN HTTPException(400, "Invalid ID format", rows)
        ELSE LET id_list == [i \in DOMAIN pieces |-> int_strip[pieces[i]]]
             IN  IF too_many_ids(id_list)
                 THEN HTTPException(400, "Maximum 50 IDs allowed", rows)
                 ELSE LET transcriptions ==
                              {r \in DOMAIN rows :
                                  /\ \E i \in DOMAIN id_list : id_list[i] = r
                                  /\ rows[r].user_id = current_user}
                      IN  [status_code |-> 200, detail |-> None,
                           statuses |-> {[id |-> r,
                                          status |-> rows[r].status,
                                          progress |-> rows[r].progress,
                                          task_id |-> rows[r].task_id,
                                          error_message |-> rows[r].error_message] :
                                            r \in transcriptions},
                           read |-> transcriptions,
                           rows |-> rows]

\* Id lists of n numbers in turn, alone, with a blank piece in front, and with
\* a piece that is no number at the end.
BulkIdsOf(n, off) ==
    LET numbers == [i \in 1..n |-> NumberTokens[((i + off) % Len(NumberTokens)) + 1]]
    IN  {numbers, <<" ">> \o numbers, numbers \o <<"x">>}

BulkIds ==
    UNION {BulkIdsOf(n, off) :
              n \in (0..2) \cup ((MAX_BULK_IDS - 2)..(MAX_BULK_IDS + MaxBulkIdsOver)),
              off \in 0..(Len(NumberTokens) - 1)}

BulkRow ==
    {[user_id |-> u, status |-> "processing", progress |-> 50, task_id |-> 1,
      error_message |-> None] : u \in Users}
    \cup {[user_id |-> u, status |-> "failed", progress |-> 0, task_id |-> 2,
           error_message |-> "APIConnectionError"] : u \in Users}

BulkTables == UNION {[1..k -> BulkRow] : k \in 0..MaxBulkRows}

\* Responses of the inference engine by shape: a plain string, a JSON string
\* with a "text" member, an object with .text, a dict with 'text', a model whose
\* model_dump() has 'text', and anything else (text is then what the engine
\* meant, which no branch of extract_transcription_text can reach).
ResponseKinds == {"str", "json", "obj", "dict", "model", "other"}

Responses ==
    {[kind |-> kind, text |-> text] :
        kind \in ResponseKinds, text \in {<<>>, <<" ">>, <<Words[1]>>, <<" ", Words[1], "\n">>}}

\* The state at the entry of a call: the function and its arguments.
Entered(fn, args) == call = [fn |-> fn, args |-> args, returned |-> FALSE, result |-> <<>>]

InitCall ==
    /\ db = <<>>
    /\ nextId = 0
    /\ tasks = <<>>
    /\ peak = [on |-> FALSE, of |-> <<>>]
    /\ \/ \E d \in AudioDurations, c \in ChunkSeconds : Entered("chunk_audio", <<d, c>>)
       \/ \E fn \in {"chunk_audio_by_diarization", "diarization_case"},
             segs \in SeqsUpTo(Segments, MaxSegments), c \in ChunkSeconds :
             Entered(fn, <<segs, c>>)
       \/ \E fn \in {"merge_transcriptions", "group_by_speaker"}, k \in 0..MaxMergeChunks :
             \E chunks \in MergeChunkListsOf(k) : Entered(fn, <<chunks>>)
       \/ \E response \in Responses : Entered("extract_transcription_text", <<response>>)
       \/ \E ids \in BulkIds, current_user \in Users, rows \in BulkTables :
             Entered("get_bulk_transcription_status", <<ids, current_user, rows>>)

Return(result) ==
    /\ ~call.returned
    /\ call' = [call EXCEPT !.returned = TRUE, !.result = result]
    /\ UNCHANGED <<db, nextId, tasks, peak>>

call_chunk_audio ==
    /\ call.fn = "chunk_audio"
    /\ Return(chunk_audio(call.args[1], call.args[2]))

call_chunk_audio_by_diarization ==
    /\ call.fn = "chunk_audio_by_diarization"
    /\ Return(chunk_audio_by_diarization(call.args[1], call.args[2]))

\* The diarization case from the engine's answer to the chunk list the loop
\* walks through (tasks.py lines 286 and 307-311): sort, then chunk.
call_diarization_case ==
    /\ call.fn = "diarization_case"
    /\ Return(chunk_audio_by_diarization(sorted_by_start(call.args[1]), call.args[2]))

\* merge_transcriptions(chunks, include_timestamps=False): the plain mode.
call_merge_transcriptions ==
    /\ call.fn = "merge_transcriptions"
    /\ Return(merge_transcriptions(call.args[1], FALSE))

\* group_by_speaker(chunks), and the speaker mode of the merger on its result
\* (tasks.py lines 363-364).
call_group_by_speaker ==
    /\ call.fn = "group_by_speaker"
    /\ LET grouped_chunks == group_by_speaker(call.args[1])
       IN  Return([grouped |-> grouped_chunks,
                   text |-> merge_transcriptions(grouped_chunks, TRUE)])

\* One response through a chunk loop's body (tasks.py lines 341-349, 405-412):
\* extract_transcription_text, then the append under if text.strip().
call_extract_transcription_text ==
    /\ call.fn = "extract_transcription_text"
    /\ LET text == extract_transcription_text(call.args[1])
       IN  Return([text |-> text,
                   transcribed_chunks |->
                       append_transcribed(<<>>,
                           [start |-> RFromInt(0), end |-> RFromInt(1), speaker |-> NoSpeaker],
                           text)])

call_get_bulk_transcription_status ==
    /\ call.fn = "get_bulk_transcription_status"
    /\ Return(get_bulk_transcription_status(call.args[1], call.args[2], call.args[3]))

NextCall ==
    \/ call_extract_transcription_text
    \/ call_chunk_audio
    \/ call_chunk_audio_by_diarization
    \/ call_diarization_case
    \/ call_merge_transcriptions
    \/ call_group_by_speaker
    \/ call_get_bulk_transcription_status

SpecCall == InitCall /\ [][NextCall]_vars

(***************************************************************************)
(* Properties                                                              *)
(***************************************************************************)
Terminal == {"completed", "failed"}

\* Record r has been enqueued once, as task 1, and not resubmitted since: no
\* other task and no later reset share the record with task 1.
SoleJob(r) == Len(tasks) = 1 /\ tasks[1].transcription_id = r /\ db[r].task_id = 1

\* A sole job that can succeed: the record holds its audio and the task names
\* a configured model, so only the external engines can make it fail.
SoundJob(r) == SoleJob(r) /\ db[r].audio_data # None /\ tasks[1].model \in MODELS

\* Task t takes a step: only the worker running t changes tasks[t].
Moves(t) == tasks'[t] # tasks[t]

\* The body of task t raises in this step: the task goes back to the queue for
\* a retry, or ends in FAILURE.
Raises(t) ==
    \/ tasks'[t].retries = tasks[t].retries + 1
    \/ tasks[t].pc # "failure" /\ tasks'[t].pc = "failure"

\* The inference call of the last chunk of task t's loop returns o.
LoopEnds(t, o) ==
    /\ tasks[t].pc = "chunk"
    /\ tasks[t].idx = Len(tasks[t].chunks)
    /\ tasks[t].transcription_id \in DOMAIN db
    /\ Moves(t)
    /\ ChunkReturn(t, o)

\* What the call task t is waiting for may answer.
Outcomes(t) == InferenceOutcomes(Max(tasks[t].idx, 1))

\* The call returned a transcript that is not blank.
Transcribed(o) == o.ok /\ strip(extract_transcription_text(o.response)) # <<>>

AllChunksFailed(strategy) ==
    IF strategy = "diarization" THEN "All diarization chunks failed to transcribe"
    ELSE "All chunks failed to transcribe"

\* The transcript words of a text, in order.
words_of(text) == SelectSeq(text, LAMBDA tok : \E i \in 1..Len(Words) : tok = Words[i])

\* The words of the answers of the calls that returned, in call order.
RECURSIVE answered_words(_)
answered_words(calls) ==
    IF calls = <<>> THEN <<>>
    ELSE (IF Head(calls).ok THEN words_of(extract_transcription_text(Head(calls).response))
          ELSE <<>>) \o answered_words(Tail(calls))

\* The stripped answers of the calls that returned a transcript, in call order.
RECURSIVE answered_texts(_)
answered_texts(calls) ==
    IF calls = <<>> THEN <<>>
    ELSE (IF Transcribed(Head(calls))
          THEN <<strip(extract_transcription_text(Head(calls).response))>>
          ELSE <<>>) \o answered_texts(Tail(calls))

\* C1: a step of the worker task never changes a status that is completed or
\* failed.  Stated for a sound job enqueued once, where only the task's own
\* retries can do it.
C1_TerminalIsFinal ==
    [][\A t \in TaskIds :
          Moves(t) =>
              \A r \in DOMAIN db :
                  (SoundJob(r) /\ db[r].status \in Terminal) => db'[r].status = db[r].status]_vars

\* C2: whenever the status of a record is pending or processing its text is
\* empty.  Stated for a sound job enqueued once.
C2_NoTextBeforeTerminal ==
    \A r \in DOMAIN db :
        (SoundJob(r) /\ db[r].status \in {"pending", "processing"}) => db[r].text = <<>>

\* C3: error_message is set only on a failed record, and never together with
\* a non-empty text.  Stated for a sound job enqueued once.
C3_ErrorExcludesText ==
    \A r \in DOMAIN db :
        (SoundJob(r) /\ db[r].error_message # None) =>
            db[r].status = "failed" /\ db[r].text = <<>>

\* C4: while a record is processing its progress is an integer in 0..100 and
\* not below any progress stored earlier for the same enqueued job.  Stated
\* for a sound job enqueued once, retries included.
C4_ProgressMonotone ==
    peak.on =>
        \A r \in DOMAIN db :
            (SoundJob(r) /\ db[r].status = "processing") =>
                db[r].progress \in 0..100 /\ db[r].progress >= peak.of[r]

\* C5: progress is 100 only on a completed record, and it is below 100 while
\* a chunk's inference call of a task of the record has not returned.
C5_HundredOnlyWhenDone ==
    \A r \in DOMAIN db :
        /\ db[r].progress = 100 => db[r].status = "completed"
        /\ (\E t \in TaskIds : tasks[t].transcription_id = r /\ tasks[t].pc = "chunk")
               => db[r].progress < 100

C7_SubmittedJobDoesNotFail ==
    \A t \in TaskIds :
        LET id == tasks[t].transcription_id
        IN  ~ /\ tasks[t].pc = "failure"
              /\ ~tasks[t].enable_diarization
              /\ id \in DOMAIN db
              /\ SoleJob(id)
              /\ db[id].minio_object_path # None
              /\ db[id].audio_ms > CHUNK_DURATION_SECONDS * 1000
              /\ db[id].status = "failed"
              /\ db[id].error_message = "object of type 'NoneType' has no len()"

\* C8 as stated: when the last chunk's call of a loop returns, the record is
\* completed if some call of the loop returned without raising, and failed
\* with the all-chunks-failed message if every call raised.
C8_AnySuccessCompletes ==
    [][\A t \in TaskIds : \A o \in Outcomes(t) :
          LoopEnds(t, o) =>
              LET calls == Append(tasks[t].outcomes, o)
                  id == tasks[t].transcription_id
              IN  IF \E i \in 1..Len(calls) : calls[i].ok
                  THEN db'[id].status = "completed"
                  ELSE /\ db'[id].status = "failed"
                       /\ db'[id].error_message = AllChunksFailed(tasks[t].strategy)]_vars

\* C8 amended: when the last chunk's call of a loop returns, the execution
\* writes completed if some call of the loop returned a transcript that is not
\* blank; otherwise (every call raised or returned only whitespace) it raises
\* and the record is failed with the all-chunks-failed message.
C8_AnyTranscriptCompletes ==
    [][\A t \in TaskIds : \A o \in Outcomes(t) :
          LoopEnds(t, o) =>
              LET calls == Append(tasks[t].outcomes, o)
                  id == tasks[t].transcription_id
              IN  IF \E i \in 1..Len(calls) : Transcribed(calls[i])
                  THEN /\ tasks'[t].pc = "success"
                       /\ db'[id].status = "completed"
                       /\ db'[id].progress = 100
                  ELSE /\ Raises(t)
                       /\ db'[id].status = "failed"
                       /\ db'[id].error_message = AllChunksFailed(tasks[t].strategy)]_vars

\* A record failed because no chunk of a loop gave a transcript.
C8_Witness ==
    \E r \in DOMAIN db :
        /\ db[r].status = "failed"
        /\ db[r].error_message \in {AllChunksFailed("diarization"), AllChunksFailed("time")}

\* C9: a chunk call that raises does not end the loop (the next chunk's call
\* is made and the status is untouched), and the text written at the end of
\* the loop holds the words of the answered calls, in call order, and nothing
\* of a call that raised; in the time strategy it is their space-joined texts.
C9_ChunkFailureIsolated ==
    [][\A t \in TaskIds : \A o \in Outcomes(t) :
          LET id == tasks[t].transcription_id
              calls == Append(tasks[t].outcomes, o)
          IN  /\ ( /\ tasks[t].pc = "chunk"
                   /\ tasks[t].idx < Len(tasks[t].chunks)
                   /\ id \in DOMAIN db
                   /\ ~o.ok
                   /\ Moves(t)
                   /\ ChunkReturn(t, o) )
                 => /\ tasks'[t].pc = "chunk"
                    /\ tasks'[t].idx = tasks[t].idx + 1
                    /\ tasks'[t].transcribed_chunks = tasks[t].transcribed_chunks
                    /\ db'[id].status = db[id].status
                    /\ db'[id].text = db[id].text
              /\ (LoopEnds(t, o) /\ tasks'[t].pc = "success")
                 => /\ words_of(db'[id].text) = answered_words(calls)
                    /\ tasks[t].strategy = "time"
                          => db'[id].text = join(<<" ">>, answered_texts(calls))]_vars

\* The second chunk's call is in flight after the first chunk's call raised.
C9_Witness ==
    \E t \in TaskIds :
        /\ tasks[t].pc = "chunk"
        /\ tasks[t].idx = 2
        /\ tasks[t].outcomes = <<Raised>>

\* C10: an execution runs the diarization strategy whenever enable_diarization
\* is set, else the time-chunked strategy iff the recording is longer than
\* chunk_duration, else the direct strategy: one whole-file call (none made
\* before it, and the execution ends when it returns) and no chunks.
C10_StrategySelection ==
    [][\A t \in DOMAIN tasks' :
          LET tk == tasks'[t]
          IN  /\ tk.strategy # "none" =>
                    /\ tk.strategy =
                          (IF tk.enable_diarization THEN "diarization"
                           ELSE IF tk.duration_ms > CHUNK_DURATION_SECONDS * 1000 THEN "time"
                           ELSE "direct")
                    /\ tk.strategy = "diarization" => tk.pc \in {"diarizing", "fallback", "chunk"}
                    /\ tk.strategy = "time" => tk.pc = "chunk" /\ Len(tk.chunks) >= 2
                    /\ tk.strategy = "direct" =>
                          tk.pc = "direct" /\ tk.chunks = <<>> /\ tk.outcomes = <<>>
              /\ tk.pc \in {"loaded", "queued", "loading"} => tk.strategy = "none"
              /\ (t \in TaskIds /\ tasks[t].pc = "direct" /\ Moves(t))
                    => tk.pc \in {"success", "queued", "failure"}]_vars

\* A recording of exactly chunk_duration goes to the direct strategy.
C10_Witness ==
    \E t \in TaskIds :
        /\ tasks[t].strategy = "direct"
        /\ tasks[t].pc = "direct"
        /\ ~tasks[t].enable_diarization
        /\ tasks[t].duration_ms = CHUNK_DURATION_SECONDS * 1000

\* C11: when diarization was requested and the engine returned no segment, the
\* execution holds no chunks and has made no transcription call; its next step
\* is the return of the one whole-file call and ends the execution; when that
\* call answers, the record (if it still exists) becomes completed, without an
\* error, with the answer's text followed by the no-speakers note.
C11_EmptyDiarizationFallback ==
    [][\A t \in TaskIds :
          tasks[t].pc = "fallback" =>
              /\ tasks[t].enable_diarization
              /\ tasks[t].strategy = "diarization"
              /\ tasks[t].chunks = <<>>
              /\ tasks[t].transcribed_chunks = <<>>
              /\ tasks[t].outcomes = <<>>
              /\ Moves(t) => tasks'[t].pc \in {"success", "queued", "failure"}
              /\ \A o \in InferenceOutcomes(1) :
                    ( /\ o.ok
                      /\ Moves(t)
                      /\ tasks[t].transcription_id \in DOMAIN db
                      /\ WholeFileReturn(t, o) )
                    => LET r == db'[tasks[t].transcription_id]
                       IN  /\ tasks'[t].pc = "success"
                           /\ r.status = "completed"
                           /\ r.error_message = None
                           /\ r.progress = 100
                           /\ r.text = extract_transcription_text(o.response)
                                          \o NoSpeakersSuffix]_vars

\* A diarization job whose engine found no speaker has ended completed with
\* the annotated transcript of its whole-file call.
C11_Witness ==
    \E r \in DOMAIN db, t \in TaskIds :
        /\ tasks[t].transcription_id = r
        /\ tasks[t].enable_diarization
        /\ tasks[t].pc = "success"
        /\ db[r].status = "completed"
        /\ db[r].text = <<Words[1]>> \o NoSpeakersSuffix

(***************************************************************************)
(* Properties of the segmenters and the merger                             *)
(***************************************************************************)
Returns(fn) == call.fn = fn /\ call.returned

\* C12: chunk_audio_by_diarization gives the same chunk list for a list of
\* segments and for that list reversed.
C12_SegmenterOrderInsensitive ==
    Returns("chunk_audio_by_diarization") =>
        call.result = chunk_audio_by_diarization(Reverse(call.args[1]), call.args[2])

NonDecreasingStarts(chunks) ==
    \A i \in 1..(Len(chunks) - 1) : RLe(chunks[i].start, chunks[i + 1].start)

\* C13: the chunk list of the diarization case, which the loop transcribes and
\* the merger reads front to back, is in non-decreasing order of start.
C13_ChunksChronological ==
    Returns("diarization_case") => NonDecreasingStarts(call.result)

\* ceil(x / k) of a rational x and a positive integer k.
RCeilDivInt(x, k) == -((-x.n) \div (x.d * k))

\* C15: a single segment longer than max_chunk_duration gives
\* ceil(D / max_chunk_duration) sub-chunks, each D / n long.
C15_SubChunkEqualSplit ==
    ( /\ Returns("chunk_audio_by_diarization")
      /\ Len(call.args[1]) = 1
      /\ RLt(RFromInt(call.args[2]), RSub(call.args[1][1].end, call.args[1][1].start)) )
    => LET D == RSub(call.args[1][1].end, call.args[1][1].start)
           n == RCeilDivInt(D, call.args[2])
       IN  /\ Len(call.result) = n
           /\ \A i \in 1..Len(call.result) :
                 RSub(call.result[i].end, call.result[i].start) = RDivInt(D, n)

\* The [start, end) ranges of chunks lie end to start from 0 to total: no gap,
\* no overlap.
Covers(chunks, total) ==
    /\ chunks # <<>>
    /\ chunks[1].start = RFromInt(0)
    /\ chunks[Len(chunks)].end = total
    /\ \A i \in 1..Len(chunks) : RLe(chunks[i].start, chunks[i].end)
    /\ \A i \in 1..(Len(chunks) - 1) : chunks[i].end = chunks[i + 1].start

\* ceil(a / b) of integers a >= 0 and b > 0.
CeilDiv(a, b) == IF a % b = 0 THEN a \div b ELSE a \div b + 1

\* C14 as stated: for every duration D, 0 included, the chunks of chunk_audio
\* cover [0, D) without gap or overlap and there are ceil(D / C) of them.
C14_CoverageAndCount ==
    Returns("chunk_audio") =>
        /\ Covers(call.result, Seconds(call.args[1]))
        /\ Len(call.result) = CeilDiv(call.args[1], call.args[2] * 1000)

\* C14 amended: the chunks of chunk_audio cover [0, D) without gap or overlap;
\* there are ceil(D / C) of them when D > 0 and one, from 0 to 0, when D = 0.
C14_CoverageAndCountOfNonEmpty ==
    Returns("chunk_audio") =>
        /\ Covers(call.result, Seconds(call.args[1]))
        /\ call.args[1] > 0 => Len(call.result) = CeilDiv(call.args[1], call.args[2] * 1000)
        /\ call.args[1] = 0 => Len(call.result) = 1

\* chunk_audio has split a recording of an exact multiple of the chunk size.
C14_Witness ==
    /\ Returns("chunk_audio")
    /\ call.args[1] = 2 * call.args[2] * 1000
    /\ Len(call.result) = 2

TextsOf(chunks) == [i \in 1..Len(chunks) |-> chunks[i].text]

NonBlank(text) == strip(text) # <<>>

Stripped(texts) == [i \in 1..Len(texts) |-> strip(texts[i])]

Without(chunks, i) == SubSeq(chunks, 1, i - 1) \o SubSeq(chunks, i + 1, Len(chunks))

\* C17 as stated: the plain merge is the single-space join of the text fields
\* that are not blank, as they are.
C17_PlainMergeJoinsTexts ==
    Returns("merge_transcriptions") =>
        call.result = join(<<" ">>, SelectSeq(TextsOf(call.args[1]), NonBlank))

\* C17 amended: the plain merge is the single-space join, in list order, of the
\* text fields that are not blank, each stripped of the whitespace around it;
\* it is the same with all offsets replaced, the same without any one
\* blank-text chunk, and empty when every text is blank.
C17_PlainMergeJoinsStrippedTexts ==
    Returns("merge_transcriptions") =>
        LET chunks == call.args[1]
        IN  /\ call.result = join(<<" ">>, Stripped(SelectSeq(TextsOf(chunks), NonBlank)))
            /\ call.result =
                  merge_transcriptions(
                      [i \in 1..Len(chunks) |->
                          [chunks[i] EXCEPT !.start = RFromInt(0), !.end = RFromInt(0)]],
                      FALSE)
            /\ \A i \in 1..Len(chunks) :
                  ~NonBlank(chunks[i].text)
                      => call.result = merge_transcriptions(Without(chunks, i), FALSE)
            /\ (\A i \in 1..Len(chunks) : ~NonBlank(chunks[i].text)) => call.result = <<>>

\* The plain merge has joined two texts around a blank one, one of them with
\* whitespace around it.
C17_Witness ==
    /\ Returns("merge_transcriptions")
    /\ Len(call.args[1]) = 3
    /\ call.args[1][1].text = <<" ", Words[1], "\n">>
    /\ call.args[1][2].text = <<" ">>
    /\ call.result = <<Words[1], " ", Words[3]>>

NonBlankChunk(c) == NonBlank(c.text)

\* The positions, in a list of chunks, where a maximal run of consecutive chunks
\* of one speaker begins; the k-th run's first and last position; its members.
RunStarts(chunks) ==
    {i \in 1..Len(chunks) : i = 1 \/ chunks[i].speaker # chunks[i - 1].speaker}

RunFirst(chunks, k) ==
    CHOOSE i \in RunStarts(chunks) :
        Cardinality({j \in RunStarts(chunks) : j < i}) = k - 1

RunLast(chunks, k) ==
    IF k = Cardinality(RunStarts(chunks)) THEN Len(chunks) ELSE RunFirst(chunks, k + 1) - 1

Members(chunks, k) == SubSeq(chunks, RunFirst(chunks, k), RunLast(chunks, k))

\* C18: group_by_speaker gives one group per maximal run of consecutive
\* non-blank chunks of one speaker, in order and under the run's speaker, so a
\* speaker who returns after another one opens a new group; the speaker merge
\* of the groups is one "LABEL: text" line per group.
C18_GroupingIsLocal ==
    Returns("group_by_speaker") =>
        LET nonblank == SelectSeq(call.args[1], NonBlankChunk)
            grouped == call.result.grouped
        IN  /\ Len(grouped) = Cardinality(RunStarts(nonblank))
            /\ \A k \in 1..Len(grouped) :
                  grouped[k].speaker = nonblank[RunFirst(nonblank, k)].speaker
            /\ \A k \in 1..(Len(grouped) - 1) : grouped[k].speaker # grouped[k + 1].speaker
            /\ call.result.text =
                  join(<<"\n">>,
                       [k \in 1..Len(grouped) |->
                           <<grouped[k].speaker, ":", " ">> \o grouped[k].text])

\* Speakers A, A, B, A, all with text, have been grouped into A+A, B, A.
C18_Witness ==
    /\ Returns("group_by_speaker")
    /\ Len(call.args[1]) = 4
    /\ \A i \in 1..4 : NonBlankChunk(call.args[1][i])
    /\ [i \in 1..4 |-> call.args[1][i].speaker] = <<"A", "A", "B", "A">>
    /\ Len(call.result.grouped) = 3
    /\ call.result.text =
          <<"A", ":", " ", Words[1], " ", Words[2], "\n",
            "B", ":", " ", Words[3], "\n",
            "A", ":", " ", Words[4]>>

RECURSIVE RMinOf(_)
RMinOf(xs) == IF Len(xs) = 1 THEN xs[1] ELSE RMin(xs[1], RMinOf(Tail(xs)))

RMax(x, y) == IF RLe(x, y) THEN y ELSE x

RECURSIVE RMaxOf(_)
RMaxOf(xs) == IF Len(xs) = 1 THEN xs[1] ELSE RMax(xs[1], RMaxOf(Tail(xs)))

\* C19: every group of group_by_speaker has its members' texts (stripped)
\* joined by single spaces, the smallest start and the largest end of its
\* members.
C19_GroupSpan ==
    Returns("group_by_speaker") =>
        LET nonblank == SelectSeq(call.args[1], NonBlankChunk)
            grouped == call.result.grouped
        IN  \A k \in 1..Len(grouped) :
                LET members == Members(nonblank, k)
                IN  /\ grouped[k].text = join(<<" ">>, Stripped(TextsOf(members)))
                    /\ grouped[k].start = RMinOf([i \in 1..Len(members) |-> members[i].start])
                    /\ grouped[k].end = RMaxOf([i \in 1..Len(members) |-> members[i].end])

(***************************************************************************)
(* Properties of the resubmit handler                                      *)
(***************************************************************************)
\* A call of re_transcribe on record id has left the record reset to pending
\* and one new task in the queue, its id in the record's task_id.
ResetAndEnqueued(id) ==
    /\ DOMAIN db' = DOMAIN db
    /\ nextId' = nextId
    /\ \A r \in DOMAIN db \ {id} : db'[r] = db[r]
    /\ db'[id].status = "pending"
    /\ db'[id].progress = 0
    /\ db'[id].text = <<>>
    /\ db'[id].error_message = None
    /\ db'[id].audio_data = db[id].audio_data
    /\ db'[id].minio_object_path = db[id].minio_object_path
    /\ Len(tasks') = Len(tasks) + 1
    /\ SubSeq(tasks', 1, Len(tasks)) = tasks
    /\ db'[id].task_id = Len(tasks')
    /\ tasks'[Len(tasks')].transcription_id = id
    /\ tasks'[Len(tasks')].pc = "queued"

\* C20 as stated: every call of re_transcribe on an existing record resets the
\* record in place, enqueues exactly one task whose id it stores in task_id
\* and leaves the number of records unchanged.
C20_ResubmitResetsInPlace ==
    [][\A id \in DOMAIN db :
          \A model \in ModelNames, enable_diarization \in BOOLEAN, broker_up \in BOOLEAN :
              ( /\ db' # db
                /\ re_transcribe(id, model, enable_diarization, broker_up) )
              => ResetAndEnqueued(id)]_vars

\* C20 amended: a call of re_transcribe whose task the broker accepts resets
\* the record in place, enqueues exactly one task whose id it stores in
\* task_id and leaves the number of records unchanged; when the broker refuses
\* the task, none is enqueued and the same record is left failed with the
\* dispatch error, its text empty and its task_id cleared.
C20_ResubmitResetsInPlaceWhenDispatched ==
    [][\A id \in DOMAIN db :
          \A model \in ModelNames, enable_diarization \in BOOLEAN :
              /\ ( /\ tasks' # tasks
                   /\ re_transcribe(id, model, enable_diarization, TRUE) )
                 => ResetAndEnqueued(id)
              /\ ( /\ db' # db
                   /\ re_transcribe(id, model, enable_diarization, FALSE) )
                 => /\ DOMAIN db' = DOMAIN db
                    /\ nextId' = nextId
                    /\ tasks' = tasks
                    /\ db'[id].status = "failed"
                    /\ db'[id].error_message = "Failed to start background task"
                    /\ db'[id].progress = 0
                    /\ db'[id].text = <<>>
                    /\ db'[id].task_id = NoTask]_vars

\* A record of the synchronous endpoint, completed when created, has been
\* resubmitted: it is pending and empty, and its task_id names the task just
\* enqueued.
C20_Witness ==
    \E r \in DOMAIN db :
        /\ db[r].audio_data # None
        /\ db[r].status = "pending"
        /\ db[r].progress = 0
        /\ db[r].text = <<>>
        /\ db[r].error_message = None
        /\ Len(tasks) >= 1
        /\ db[r].task_id = Len(tasks)
        /\ tasks[Len(tasks)].transcription_id = r
        /\ tasks[Len(tasks)].pc = "queued"

\* C29: every chunk of chunk_audio_by_diarization is at most max_chunk_duration
\* long.
C29_ChunkLengthBound ==
    Returns("chunk_audio_by_diarization") =>
        \A i \in 1..Len(call.result) :
            RLe(RSub(call.result[i].end, call.result[i].start), RFromInt(call.args[2]))

\* chunk_audio_by_diarization was called on the single segment call.args[1][1],
\* longer than max_chunk_duration.
OneLongSegment ==
    /\ Returns("chunk_audio_by_diarization")
    /\ Len(call.args[1]) = 1
    /\ RLt(RFromInt(call.args[2]), RSub(call.args[1][1].end, call.args[1][1].start))

Normalizable == ResponseKinds \ {"other"}

\* C25: extract_transcription_text returns the transcript of every response
\* shape it knows, and for a response it cannot normalize it returns an empty
\* transcript, so that such a chunk adds nothing to the transcribed chunks.
C25_NormalizationTotal ==
    Returns("extract_transcription_text") =>
        /\ call.args[1].kind \in Normalizable => call.result.text = call.args[1].text
        /\ call.args[1].kind \notin Normalizable =>
              /\ strip(call.result.text) = <<>>
              /\ call.result.transcribed_chunks = <<>>

(***************************************************************************)
(* Properties of the task's retries and of its executions                  *)
(***************************************************************************)
\* C23: a task that has started goes back to the queue only as a counted
\* retry, of which there are at most max_retries, so that its body runs at
\* most 1 + max_retries times; once it has failed for good it never moves
\* again, and the record it failed on, if it exists, is failed with an error
\* message.
C23_BoundedRetry ==
    [][\A t \in TaskIds :
          /\ tasks'[t].retries <= max_retries
          /\ (tasks[t].pc # "queued" /\ tasks'[t].pc = "queued")
                => tasks'[t].retries = tasks[t].retries + 1
          /\ tasks[t].pc = "failure" => tasks'[t] = tasks[t]
          /\ (tasks[t].pc # "failure" /\ tasks'[t].pc = "failure"
              /\ tasks[t].transcription_id \in DOMAIN db)
                => /\ db'[tasks[t].transcription_id].status = "failed"
                   /\ db'[tasks[t].transcription_id].error_message # None]_vars

\* C24: an execution of a task whose model is not configured makes no
\* diarization call, no chunks and no inference call, and when its validation
\* raises, the job is over: the task has failed for good and its record, if
\* it exists, is failed.
C24_ConfigurationErrorFailsFast ==
    [][\A t \in TaskIds :
          tasks[t].model \notin MODELS =>
              /\ tasks'[t].pc \notin {"diarizing", "fallback", "chunk", "direct"}
              /\ tasks'[t].strategy = "none"
              /\ tasks'[t].chunks = <<>>
              /\ tasks'[t].outcomes = <<>>
              /\ (tasks[t].pc = "loaded" /\ Moves(t) /\ TaskSelect(t))
                    => /\ tasks'[t].pc = "failure"
                       /\ tasks[t].transcription_id \in DOMAIN db
                             => db'[tasks[t].transcription_id].status = "failed"]_vars

\* The positions at which a task waits for an inference call to return.
InCall == {"chunk", "direct", "fallback"}

\* C26: an execution waits for one inference call at a time: in a chunk loop
\* the call in flight is the one for chunk idx, the calls for all chunks before
\* it have returned or raised and none for a later chunk has started, and the
\* call for the next chunk starts in the step in which this one returns or
\* raises; a whole-file call is the only call of its execution.
C26_ChunksSequential ==
    [][\A t \in TaskIds :
          LET tk == tasks'[t]
          IN  /\ tk.pc = "chunk" =>
                    /\ tk.idx \in 1..Len(tk.chunks)
                    /\ Len(tk.outcomes) = tk.idx - 1
              /\ tk.pc \in {"direct", "fallback"} => tk.outcomes = <<>>
              /\ tk.pc \notin InCall => tk.idx = 0 /\ tk.outcomes = <<>>
              /\ (tasks[t].pc = "chunk" /\ tk.pc = "chunk" /\ Moves(t)) =>
                    /\ tk.idx = tasks[t].idx + 1
                    /\ Len(tk.outcomes) = Len(tasks[t].outcomes) + 1
                    /\ SubSeq(tk.outcomes, 1, Len(tasks[t].outcomes)) = tasks[t].outcomes
                    /\ tk.chunks = tasks[t].chunks]_vars

\* A chunk loop waits for the call of its second chunk, the first having
\* raised.
C26_Witness ==
    \E t \in TaskIds :
        /\ tasks[t].pc = "chunk"
        /\ tasks[t].idx = 2
        /\ tasks[t].outcomes = <<Raised>>

(***************************************************************************)
(* Properties of resubmitted jobs                                          *)
(***************************************************************************)
\* The status changes of a job between its resubmit and its end.
ResubmitPath ==
    {<<"pending", "processing">>, <<"processing", "completed">>, <<"processing", "failed">>}

\* C21: a completed record that has been resubmitted moves pending ->
\* processing -> completed or failed and by no other change of status, and
\* from the resubmit on its text is never the transcript it held before.
\* Stated for the steps of the task of a record that holds its audio and was
\* resubmitted once with a valid model.
C21_ResubmissionScenario ==
    [][\A r \in DOMAIN db, t \in TaskIds :
          (SoundJob(r) /\ Moves(t) /\ r \in DOMAIN db') =>
              /\ db'[r].status # db[r].status => <<db[r].status, db'[r].status>> \in ResubmitPath
              /\ db'[r].text # LegacyText]_vars

\* C28: once a record has been given to a later task, no step of an earlier
\* task of the record changes the record.
C28_SingleWriterUnderResubmit ==
    [][\A t \in TaskIds :
          LET r == tasks[t].transcription_id
          IN  (r \in DOMAIN db /\ db[r].task_id # NoTask /\ db[r].task_id # t /\ Moves(t))
                  => (r \in DOMAIN db' /\ db'[r] = db[r])]_vars

\* C22: pollers only read: a step of get_transcription_status leaves every
\* Job Record as it was (status, progress, text and error_message unchanged).
C22_PollersOnlyRead ==
    [][\A id \in DOMAIN db : get_transcription_status(id) => db' = db]_vars

\* C27: a bulk poll that names more than 50 ids is answered with an error and
\* loads no row; one that names at most 50 answers with status entries only
\* for rows of the caller; in both cases the table is as it was.
NamedIds(ids) == Cardinality({i \in DOMAIN ids : ids[i] \notin BlankTokens})

C27_BulkPollCap ==
    (call.fn = "get_bulk_transcription_status" /\ call.returned) =>
        LET ids == call.args[1]
            current_user == call.args[2]
            rows == call.args[3]
            response == call.result
        IN  /\ NamedIds(ids) > 50 =>
                  /\ response.status_code = 400
                  /\ response.read = {}
                  /\ response.statuses = {}
            /\ NamedIds(ids) <= 50 =>
                  \A s \in response.statuses :
                      /\ s.id \in DOMAIN rows
                      /\ rows[s.id].user_id = current_user
            /\ response.rows = rows

\* A poll of exactly 50 ids that names a row of the caller and a row of
\* somebody else: it is answered, and with the caller's row only.
C27_Witness ==
    /\ call.fn = "get_bulk_transcription_status"
    /\ call.returned
    /\ NamedIds(call.args[1]) = 50
    /\ call.result.status_code = 200
    /\ call.result.statuses # {}
    /\ \E r \in DOMAIN call.args[3] :
          /\ call.args[3][r].user_id # call.args[2]
          /\ \E i \in DOMAIN call.args[1] : call.args[1][i] \in DOMAIN int_strip
                                             /\ int_strip[call.args[1][i]] = r

====
